---- MODULE Spec2Model ----
(***************************************************************************)
(* Model of the Orca Note "table layout" plugin (src/src/main.tsx and      *)
(* src/src/libs/l10n.ts) together with the parts of the host (the orca     *)
(* global declared in src/src/orca.d.ts) that the plugin reads and calls.  *)
(***************************************************************************)
EXTENDS Integers, Sequences, FiniteSets, TLC

VARIABLES
  blocks,             \* orca.state.blocks: existing block id -> block
  commands,           \* orca.state.commands: registered command id -> entry
  blockMenuCommands,  \* orca.state.blockMenuCommands: menu id -> entry
  cssResources,       \* CSS resources injected into the host, in order
  locale,             \* orca.state.locale
  pluginName,         \* main.tsx: let pluginName
  l10nLocale,         \* l10n.ts: let _locale
  l10nTranslations,   \* l10n.ts: let _translations
  exec,               \* executions of the three attribute operations
  hostLog,            \* calls of load/unload and their host API calls, from the
                      \* first load of the current run of loads on
  tCall,              \* a call of t: its arguments, and its result once it has run
  click               \* the click handler of a menu item: what it has done so far

vars == <<blocks, commands, blockMenuCommands, cssResources, locale,
          pluginName, l10nLocale, l10nTranslations, exec, hostLog, tCall, click>>

----------------------------------------------------------------------------
(* Bounds and sample domains *)

MaxVal == 2
MaxExecs == 2

BlockIds == {1, 2}
AttrKeys == {"multi-col", "serie", "customKey"}
LayoutKeys == {"multi-col", "serie"}
Slots == 1..MaxExecs

(* JSON values *)
JsNull == [null |-> TRUE]
EmptyMap == [k \in {} |-> 1]

(* The maps a block's _attr can hold: layout keys carry the flag 1 the     *)
(* plugin writes, other keys carry any value.                              *)
AttrMaps ==
  UNION { [D -> 1..MaxVal] : D \in SUBSET AttrKeys }

InitAttrMaps ==
  { m \in AttrMaps : \A k \in DOMAIN m \cap LayoutKeys : m[k] = 1 }

ReprValues == { [type |-> "table2"], [type |-> "text"], JsNull }

(* A block property as stored by the host: {name, value, type}; the name   *)
(* is the key of the block's properties function.                          *)
Prop(v) == [value |-> v, type |-> 0]

InitBlockStates ==
  { [properties |-> r @@ a] :
      r \in {EmptyMap} \cup { "_repr" :> Prop(v) : v \in ReprValues },
      a \in {EmptyMap} \cup { "_attr" :> Prop(v) : v \in {JsNull} \cup InitAttrMaps } }

InitBlocks ==
  UNION { [D -> InitBlockStates] : D \in SUBSET BlockIds }

----------------------------------------------------------------------------
(* main.tsx: attribute helpers *)

Last(s) == s[Len(s)]

(* block?.properties.find((p) => p.name === name) *)
HasProp(blockId, name) ==
  /\ blockId \in DOMAIN blocks
  /\ name \in DOMAIN blocks[blockId].properties

(* JavaScript truthiness of a stored _attr value: null is falsy, every     *)
(* object (the empty one included) is truthy.                              *)
Truthy(v) == v # JsNull

(* Variant: when the block has no usable _attr the value of its _repr      *)
(* property is read in its place.                                          *)
getBlockAttr_AnyProperty(blockId) ==
  IF HasProp(blockId, "_attr") /\ Truthy(blocks[blockId].properties["_attr"].value)
  THEN blocks[blockId].properties["_attr"].value
  ELSE IF HasProp(blockId, "_repr") /\ Truthy(blocks[blockId].properties["_repr"].value)
  THEN blocks[blockId].properties["_repr"].value
  ELSE EmptyMap

getBlockAttr(blockId) ==
  IF HasProp(blockId, "_attr") /\ Truthy(blocks[blockId].properties["_attr"].value)
  THEN blocks[blockId].properties["_attr"].value
  ELSE EmptyMap

(* { ...attr, [key]: 1 } *)
SpreadWith(attr, key) ==
  [k \in DOMAIN attr \cup {key} |-> IF k = key THEN 1 ELSE attr[k]]

(* delete attr[key] *)
DeleteKey(attr, key) ==
  [k \in DOMAIN attr \ {key} |-> attr[k]]

----------------------------------------------------------------------------
(* Host: core.editor.setProperties / core.editor.deleteProperties *)

(* Variant: the host merges a written map into the stored one.             *)
RECURSIVE SetProps_Merges(_, _)
SetProps_Merges(properties, props) ==
  IF props = <<>> THEN properties
  ELSE SetProps_Merges(
         [n \in DOMAIN properties \cup {Head(props).name} |->
            IF n # Head(props).name THEN properties[n]
            ELSE IF n \in DOMAIN properties /\ properties[n].value # JsNull
            THEN [value |-> [k \in DOMAIN properties[n].value
                                   \cup DOMAIN Head(props).value |->
                               IF k \in DOMAIN Head(props).value
                               THEN Head(props).value[k]
                               ELSE properties[n].value[k]],
                  type |-> Head(props).type]
            ELSE [value |-> Head(props).value, type |-> Head(props).type]],
         Tail(props))

(* Sets or updates the given properties on those of the given blocks that  *)
(* exist; props is a sequence of {name, value, type}.                      *)
RECURSIVE SetProps(_, _)
SetProps(properties, props) ==
  IF props = <<>> THEN properties
  ELSE SetProps([n \in DOMAIN properties \cup {Head(props).name} |->
                    IF n = Head(props).name
                    THEN [value |-> Head(props).value, type |-> Head(props).type]
                    ELSE properties[n]],
                Tail(props))

Range(s) == { s[i] : i \in DOMAIN s }

coreEditorSetProperties(bs, blockIds, props) ==
  [b \in DOMAIN bs |->
     IF b \in Range(blockIds)
     THEN [bs[b] EXCEPT !.properties = SetProps(@, props)]
     ELSE bs[b]]

coreEditorDeleteProperties(bs, blockIds, names) ==
  [b \in DOMAIN bs |->
     IF b \in Range(blockIds)
     THEN [bs[b] EXCEPT !.properties =
             [n \in DOMAIN @ \ Range(names) |-> @[n]]]
     ELSE bs[b]]

ApplyCommand(bs, call) ==
  IF call.cmd = "core.editor.setProperties"
  THEN coreEditorSetProperties(bs, call.blockIds, call.arg)
  ELSE coreEditorDeleteProperties(bs, call.blockIds, call.arg)

----------------------------------------------------------------------------
(* main.tsx: the three attribute operations.  Each runs synchronously up   *)
(* to its await, where the host command has been invoked; it resumes when  *)
(* the host settles the command.                                           *)

(* The slot a new execution runs in: the lowest one not suspended.         *)
Suspended(s) == exec[s].pc = "awaiting"
FreeSlots == { s \in Slots : ~Suspended(s) }
NewSlot == CHOOSE s \in FreeSlots : \A u \in FreeSlots : s <= u

(* The target block as host state holds it when the operation starts.      *)
Snapshot(blockId) ==
  IF blockId \in DOMAIN blocks THEN <<blocks[blockId]>> ELSE <<>>

(* during: the executions whose host command was pending when this one     *)
(* started.                                                                *)
Started(op, blockId) ==
  [pc |-> "awaiting", op |-> op, blockId |-> blockId,
   pre |-> Snapshot(blockId), calls |-> <<>>, settled |-> "none",
   result |-> "none",
   during |-> { u \in Slots : exec[u].pc = "awaiting" /\ exec[u].settled = "pending" }]

(* orca.commands.invokeEditorCommand(cmd, null, blockIds, arg) *)
invokeEditorCommand(e, cmd, blockIds, arg) ==
  [e EXCEPT !.calls = Append(@, [cmd |-> cmd, blockIds |-> blockIds, arg |-> arg]),
            !.settled = "pending"]

(* Variant: the property is written with type 1.                           *)
SetPropertiesAttr_TextType(e, blockId, attr) ==
  invokeEditorCommand(e, "core.editor.setProperties", <<blockId>>,
                      << [name |-> "_attr", value |-> attr, type |-> 1] >>)

SetPropertiesAttr(e, blockId, attr) ==
  invokeEditorCommand(e, "core.editor.setProperties", <<blockId>>,
                      << [name |-> "_attr", value |-> attr, type |-> 0] >>)

DeletePropertiesAttr(e, blockId) ==
  invokeEditorCommand(e, "core.editor.deleteProperties", <<blockId>>,
                      << "_attr" >>)

(* Execution e takes slot s; the execution that held the slot before is    *)
(* no longer one the others started during.                                *)
Run(s, e) ==
  [u \in Slots |-> IF u = s THEN e
                   ELSE [exec[u] EXCEPT !.during = @ \ {s}]]

(* The host holds a reference to an operation only through the command     *)
(* registered with it as doFn.                                             *)
Registered(fn) == \E id \in DOMAIN commands : commands[id].doFn = fn

(* Variant: the layout key counts the times it has been set.               *)
setMultiColBody_Counts(blockId) ==
  SetPropertiesAttr(Started("setMultiCol", blockId), blockId,
                    [k \in DOMAIN getBlockAttr(blockId) \cup {"multi-col"} |->
                       IF k # "multi-col" THEN getBlockAttr(blockId)[k]
                       ELSE IF k \in DOMAIN getBlockAttr(blockId)
                            THEN getBlockAttr(blockId)[k] + 1
                            ELSE 1])

(* Variant: setting one layout key removes the other.                      *)
setMultiColBody_Exclusive(blockId) ==
  SetPropertiesAttr(Started("setMultiCol", blockId), blockId,
                    SpreadWith(DeleteKey(getBlockAttr(blockId), "serie"), "multi-col"))

setMultiColBody(blockId) ==
  SetPropertiesAttr(Started("setMultiCol", blockId), blockId,
                    SpreadWith(getBlockAttr(blockId), "multi-col"))

(* Variant: the written map is built afresh, not from the map read.        *)
setSeriesBody_FreshMap(blockId) ==
  SetPropertiesAttr(Started("setSeries", blockId), blockId,
                    SpreadWith(EmptyMap, "serie"))

setSeriesBody(blockId) ==
  SetPropertiesAttr(Started("setSeries", blockId), blockId,
                    SpreadWith(getBlockAttr(blockId), "serie"))

(* Variant: the reduced map is always written, also when it is empty.      *)
clearLayoutBody_AlwaysSet(blockId) ==
  SetPropertiesAttr(Started("clearLayout", blockId), blockId,
                    DeleteKey(DeleteKey(getBlockAttr(blockId), "multi-col"), "serie"))

(* Variant: only multi-col is removed.                                     *)
clearLayoutBody_KeepsSerie(blockId) ==
  LET attr == DeleteKey(getBlockAttr(blockId), "multi-col")
  IN  IF Cardinality(DOMAIN attr) = 0
      THEN DeletePropertiesAttr(Started("clearLayout", blockId), blockId)
      ELSE SetPropertiesAttr(Started("clearLayout", blockId), blockId, attr)

(* Variant: nothing is asked of the host when the map holds no layout key. *)
clearLayoutBody_SkipsNoOp(blockId) ==
  LET read == getBlockAttr(blockId)
      attr == DeleteKey(DeleteKey(read, "multi-col"), "serie")
  IN  IF DOMAIN read \cap LayoutKeys = {}
      THEN [Started("clearLayout", blockId) EXCEPT !.settled = "applied"]
      ELSE IF Cardinality(DOMAIN attr) = 0
      THEN DeletePropertiesAttr(Started("clearLayout", blockId), blockId)
      ELSE SetPropertiesAttr(Started("clearLayout", blockId), blockId, attr)

(* Variant: the map is tested for emptiness before the layout keys are     *)
(* removed from it.                                                        *)
clearLayoutBody_TestsBeforeDelete(blockId) ==
  LET read == getBlockAttr(blockId)
      attr == DeleteKey(DeleteKey(read, "multi-col"), "serie")
  IN  IF Cardinality(DOMAIN read) = 0
      THEN DeletePropertiesAttr(Started("clearLayout", blockId), blockId)
      ELSE SetPropertiesAttr(Started("clearLayout", blockId), blockId, attr)

clearLayoutBody(blockId) ==
  LET attr == DeleteKey(DeleteKey(getBlockAttr(blockId), "multi-col"), "serie")
  IN  IF Cardinality(DOMAIN attr) = 0
      THEN DeletePropertiesAttr(Started("clearLayout", blockId), blockId)
      ELSE SetPropertiesAttr(Started("clearLayout", blockId), blockId, attr)

setMultiCol(blockId) ==
  /\ Registered("setMultiCol")
  /\ FreeSlots # {}
  /\ exec' = Run(NewSlot, setMultiColBody(blockId))
  /\ UNCHANGED <<blocks, commands, blockMenuCommands, cssResources, locale,
                 pluginName, l10nLocale, l10nTranslations, hostLog, tCall, click>>

setSeries(blockId) ==
  /\ Registered("setSeries")
  /\ FreeSlots # {}
  /\ exec' = Run(NewSlot, setSeriesBody(blockId))
  /\ UNCHANGED <<blocks, commands, blockMenuCommands, cssResources, locale,
                 pluginName, l10nLocale, l10nTranslations, hostLog, tCall, click>>

(* Variant: the layout keys are deleted from the map host state holds, not *)
(* from a copy of it.                                                      *)
clearLayout_InPlace(blockId) ==
  /\ Registered("clearLayout")
  /\ FreeSlots # {}
  /\ exec' = Run(NewSlot, clearLayoutBody(blockId))
  /\ blocks' = IF HasProp(blockId, "_attr")
                  /\ Truthy(blocks[blockId].properties["_attr"].value)
               THEN [blocks EXCEPT ![blockId].properties["_attr"].value =
                       DeleteKey(DeleteKey(@, "multi-col"), "serie")]
               ELSE blocks
  /\ UNCHANGED <<commands, blockMenuCommands, cssResources, locale,
                 pluginName, l10nLocale, l10nTranslations, hostLog, tCall, click>>

clearLayout(blockId) ==
  /\ Registered("clearLayout")
  /\ FreeSlots # {}
  /\ exec' = Run(NewSlot, clearLayoutBody(blockId))
  /\ UNCHANGED <<blocks, commands, blockMenuCommands, cssResources, locale,
                 pluginName, l10nLocale, l10nTranslations, hostLog, tCall, click>>

(* The host carries out the pending command of execution s; it can do so   *)
(* only on blocks it holds.                                                *)
HostApply(s) ==
  /\ exec[s].pc = "awaiting"
  /\ exec[s].settled = "pending"
  /\ Range(Last(exec[s].calls).blockIds) \subseteq DOMAIN blocks
  /\ blocks' = ApplyCommand(blocks, Last(exec[s].calls))
  /\ exec' = [exec EXCEPT ![s].settled = "applied"]
  /\ UNCHANGED <<commands, blockMenuCommands, cssResources, locale,
                 pluginName, l10nLocale, l10nTranslations, hostLog, tCall, click>>

(* The host rejects the pending command of execution s.                    *)
HostReject(s) ==
  /\ exec[s].pc = "awaiting"
  /\ exec[s].settled = "pending"
  /\ exec' = [exec EXCEPT ![s].settled = "rejected"]
  /\ UNCHANGED <<blocks, commands, blockMenuCommands, cssResources, locale,
                 pluginName, l10nLocale, l10nTranslations, hostLog, tCall, click>>

(* Variant: a rejection of the host command is swallowed and null is       *)
(* returned.                                                               *)
Resume_Swallows(s) ==
  /\ exec[s].pc = "awaiting"
  /\ exec[s].settled \in {"applied", "rejected"}
  /\ exec' = [exec EXCEPT ![s].pc = "done", ![s].result = "null"]
  /\ UNCHANGED <<blocks, commands, blockMenuCommands, cssResources, locale,
                 pluginName, l10nLocale, l10nTranslations, hostLog, tCall, click>>

(* The operation resumes after its await: return null when the command     *)
(* resolved, the rejection propagates when it did not.                     *)
Resume(s) ==
  /\ exec[s].pc = "awaiting"
  /\ exec[s].settled \in {"applied", "rejected"}
  /\ exec' = [exec EXCEPT ![s].pc = IF exec[s].settled = "applied"
                                     THEN "done" ELSE "rejected",
                          ![s].result = IF exec[s].settled = "applied"
                                         THEN "null" ELSE "none"]
  /\ UNCHANGED <<blocks, commands, blockMenuCommands, cssResources, locale,
                 pluginName, l10nLocale, l10nTranslations, hostLog, tCall, click>>

----------------------------------------------------------------------------
(* l10n.ts and the translation table main.tsx passes to it.  A string of  *)
(* the localization layer is a sequence of symbols; a symbol is one of the *)
(* characters "$", "{", "}" or a piece of text holding none of them.       *)

UIKeys == { <<"Set Multi-column">>, <<"Set Series">>, <<"Clear Layout">>,
            <<"Table Layout">>, <<"Multi-column">>, <<"Series">>, <<"None">> }

(* ./translations/zhCN: one translation for every string of the UI.        *)
zhCN == [k \in UIKeys |-> <<"zh-CN", k[1]>>]

BuiltinTranslations == [l \in {"zh-CN"} |-> zhCN]

(* Variant: a missing entry yields the empty string.                       *)
Template_EmptyFallback(translations, loc, key) ==
  IF loc \in DOMAIN translations /\ key \in DOMAIN translations[loc]
  THEN translations[loc][key]
  ELSE <<>>

(* _translations[loc]?.[key] ?? key *)
Template(translations, loc, key) ==
  IF loc \in DOMAIN translations /\ key \in DOMAIN translations[loc]
  THEN translations[loc][key]
  ELSE key

(* the template literal "${" name "}" *)
Placeholder(name) == <<"$", "{">> \o name \o <<"}">>

MatchesAt(str, search, i) ==
  /\ i + Len(search) - 1 <= Len(str)
  /\ SubSeq(str, i, i + Len(search) - 1) = search

(* The symbols for the grave accent and the apostrophe characters.         *)
Grave == "<grave>"
Apostrophe == "<apostrophe>"

(* String.prototype.replaceAll with a string pattern expands, in the       *)
(* replacement string, "$$" to "$", "$&" to the match, "$" with a grave    *)
(* accent to the text before the match and "$" with an apostrophe to the   *)
(* text after it, for the match at position pos; any other "$" stands for  *)
(* itself.                                                                 *)
RECURSIVE GetSubstitution(_, _, _, _, _)
GetSubstitution(str, search, pos, replacement, j) ==
  IF j > Len(replacement) THEN <<>>
  ELSE IF replacement[j] = "$" /\ j < Len(replacement)
            /\ replacement[j + 1] \in {"$", "&", Grave, Apostrophe}
       THEN (CASE replacement[j + 1] = "$" -> <<"$">>
               [] replacement[j + 1] = "&" -> search
               [] replacement[j + 1] = Grave -> SubSeq(str, 1, pos - 1)
               [] replacement[j + 1] = Apostrophe -> SubSeq(str, pos + Len(search), Len(str)))
            \o GetSubstitution(str, search, pos, replacement, j + 2)
       ELSE <<replacement[j]>> \o GetSubstitution(str, search, pos, replacement, j + 1)

(* str.replaceAll(search, replacement) from position i on, for a search    *)
(* string that is not empty: the matches are found left to right in str    *)
(* and do not overlap.                                                     *)
RECURSIVE ReplaceFrom(_, _, _, _)
ReplaceFrom(str, search, replacement, i) ==
  IF i > Len(str) THEN <<>>
  ELSE IF MatchesAt(str, search, i)
       THEN GetSubstitution(str, search, i, replacement, 1)
            \o ReplaceFrom(str, search, replacement, i + Len(search))
       ELSE <<str[i]>> \o ReplaceFrom(str, search, replacement, i + 1)

replaceAll(str, search, replacement) == ReplaceFrom(str, search, replacement, 1)

(* Variant: the substitution of all the arguments is run a second time on  *)
(* its own result.                                                         *)
RECURSIVE ReduceArgs_Once(_, _)
ReduceArgs_Once(entries, str) ==
  IF entries = <<>> THEN str
  ELSE ReduceArgs_Once(Tail(entries),
                       replaceAll(str, Placeholder(Head(entries).name), Head(entries).val))

ReduceArgs_Twice(entries, str) ==
  ReduceArgs_Once(entries, ReduceArgs_Once(entries, str))

(* Variant: the entries are applied from the last to the first.            *)
RECURSIVE ReduceArgs_RightToLeft(_, _)
ReduceArgs_RightToLeft(entries, str) ==
  IF entries = <<>> THEN str
  ELSE replaceAll(ReduceArgs_RightToLeft(Tail(entries), str),
                  Placeholder(Head(entries).name), Head(entries).val)

(* Object.entries(args).reduce((str, [name, val]) => ..., template) *)
RECURSIVE ReduceArgs(_, _)
ReduceArgs(entries, str) ==
  IF entries = <<>> THEN str
  ELSE ReduceArgs(Tail(entries),
                  replaceAll(str, Placeholder(Head(entries).name), Head(entries).val))

(* Variant: the explicit locale argument is ignored.                       *)
t_IgnoresLocale(key, args, loc) ==
  LET template == Template(l10nTranslations, l10nLocale, key)
  IN  IF args = <<>> THEN template ELSE ReduceArgs(args[1], template)

(* An optional argument is <<>> when it is not given and <<v>> when it is. *)
t(key, args, loc) ==
  LET template == Template(l10nTranslations,
                           IF loc # <<>> THEN loc[1] ELSE l10nLocale, key)
  IN  IF args = <<>> THEN template ELSE ReduceArgs(args[1], template)

NoCall == [called |-> FALSE, key |-> <<>>, args |-> <<>>, locale |-> <<>>,
           result |-> <<>>]

(* A result obtained before setupL10N says nothing about a lookup after it. *)
setupL10N(loc, builtinTranslations) ==
  /\ l10nLocale' = loc
  /\ l10nTranslations' = builtinTranslations
  /\ tCall' = [tCall EXCEPT !.called = FALSE, !.result = <<>>]
  /\ UNCHANGED <<blocks, commands, blockMenuCommands, cssResources, locale,
                 pluginName, exec, hostLog, click>>

callT ==
  /\ ~tCall.called
  /\ tCall' = [tCall EXCEPT !.called = TRUE,
                            !.result = t(tCall.key, tCall.args, tCall.locale)]
  /\ UNCHANGED <<blocks, commands, blockMenuCommands, cssResources, locale,
                 pluginName, l10nLocale, l10nTranslations, exec, hostLog, click>>

----------------------------------------------------------------------------
(* main.tsx: load and unload, and the host registries they call.           *)

(* The name the host loads the plugin under: the name of its folder.       *)
PluginNames == {"tl"}
Suffixes == {".multi-col", ".series", ".none"}
CommandIds(name) == { name \o x : x \in Suffixes }
MenuId(name) == name \o ".menu"

(* orca.commands.registerEditorCommand(id, doFn, undoFn, opts) *)
registerEditorCommand(h, id, doFn, label) ==
  [h EXCEPT !.commands = [i \in DOMAIN @ \cup {id} |->
                            IF i = id
                            THEN [doFn |-> doFn, undoFn |-> "noop", label |-> label]
                            ELSE @[i]],
            !.log = Append(@, [fn |-> "registerEditorCommand", arg |-> id])]

(* orca.commands.unregisterEditorCommand(id) *)
unregisterEditorCommand(h, id) ==
  [h EXCEPT !.commands = [i \in DOMAIN @ \ {id} |-> @[i]],
            !.log = Append(@, [fn |-> "unregisterEditorCommand", arg |-> id])]

(* orca.blockMenuCommands.registerBlockMenuCommand(id, command) *)
registerBlockMenuCommand(h, id) ==
  [h EXCEPT !.blockMenuCommands =
              [i \in DOMAIN @ \cup {id} |->
                 IF i = id
                 THEN [worksOnMultipleBlocks |-> FALSE, render |-> "render"]
                 ELSE @[i]],
            !.log = Append(@, [fn |-> "registerBlockMenuCommand", arg |-> id])]

(* orca.blockMenuCommands.unregisterBlockMenuCommand(id) *)
unregisterBlockMenuCommand(h, id) ==
  [h EXCEPT !.blockMenuCommands = [i \in DOMAIN @ \ {id} |-> @[i]],
            !.log = Append(@, [fn |-> "unregisterBlockMenuCommand", arg |-> id])]

(* orca.themes.injectCSSResource(url, role) *)
injectCSSResource(h, url, role) ==
  [h EXCEPT !.cssResources = Append(@, [url |-> url, role |-> role]),
            !.log = Append(@, [fn |-> "injectCSSResource", arg |-> role])]

(* orca.themes.removeCSSResources(role) *)
removeCSSResources(h, role) ==
  [h EXCEPT !.cssResources = SelectSeq(@, LAMBDA r : r.role # role),
            !.log = Append(@, [fn |-> "removeCSSResources", arg |-> role])]

(* The part of host state load and unload act on.                          *)
Host == [commands |-> commands, blockMenuCommands |-> blockMenuCommands,
         cssResources |-> cssResources, log |-> hostLog]

(* Variant: the command is registered without the existence check.        *)
GuardedRegisterCommand_Unguarded(h, id, doFn, label) ==
  registerEditorCommand(h, id, doFn, label)

(* if (orca.state.commands[id] == null) registerEditorCommand(id, ...) *)
GuardedRegisterCommand(h, id, doFn, label) ==
  IF id \notin DOMAIN h.commands
  THEN registerEditorCommand(h, id, doFn, label)
  ELSE h

(* if (orca.state.blockMenuCommands[id] == null) registerBlockMenuCommand  *)
GuardedRegisterMenu(h, id) ==
  IF id \notin DOMAIN h.blockMenuCommands
  THEN registerBlockMenuCommand(h, id)
  ELSE h

(* t(key) as load calls it, after setupL10N(loc, translations) *)
Label(translations, loc, key) == Template(translations, loc, <<key>>)

(* Variant: load takes the presence of its first command to mean that it   *)
(* has run already and returns.                                            *)
loadBody_EarlyReturn(h, name, tr, loc) ==
  IF name \o ".multi-col" \in DOMAIN h.commands THEN h
  ELSE LET h1 == registerEditorCommand(h, name \o ".multi-col", "setMultiCol",
                                       Label(tr, loc, "Set Multi-column"))
           h2 == GuardedRegisterCommand(h1, name \o ".series", "setSeries",
                                        Label(tr, loc, "Set Series"))
           h3 == GuardedRegisterCommand(h2, name \o ".none", "clearLayout",
                                        Label(tr, loc, "Clear Layout"))
           h4 == GuardedRegisterMenu(h3, name \o ".menu")
       IN  injectCSSResource(h4, name \o "/dist/layouts.css", name)

(* Variant: the CSS resource is injected only when none of the role is     *)
(* there yet.                                                              *)
loadBody_GuardedCss(h, name, tr, loc) ==
  LET h1 == GuardedRegisterCommand(h, name \o ".multi-col", "setMultiCol",
                                   Label(tr, loc, "Set Multi-column"))
      h2 == GuardedRegisterCommand(h1, name \o ".series", "setSeries",
                                   Label(tr, loc, "Set Series"))
      h3 == GuardedRegisterCommand(h2, name \o ".none", "clearLayout",
                                   Label(tr, loc, "Clear Layout"))
      h4 == GuardedRegisterMenu(h3, name \o ".menu")
  IN  IF \E i \in DOMAIN h4.cssResources : h4.cssResources[i].role = name
      THEN h4
      ELSE injectCSSResource(h4, name \o "/dist/layouts.css", name)

(* The host calls of load(name), in program order.                         *)
loadBody(h, name, tr, loc) ==
  LET h1 == GuardedRegisterCommand(h, name \o ".multi-col", "setMultiCol",
                                   Label(tr, loc, "Set Multi-column"))
      h2 == GuardedRegisterCommand(h1, name \o ".series", "setSeries",
                                   Label(tr, loc, "Set Series"))
      h3 == GuardedRegisterCommand(h2, name \o ".none", "clearLayout",
                                   Label(tr, loc, "Clear Layout"))
      h4 == GuardedRegisterMenu(h3, name \o ".menu")
  IN  injectCSSResource(h4, name \o "/dist/layouts.css", name)

(* Variant: unload leaves the menu contribution registered.                *)
unloadBody_KeepsMenu(h, name) ==
  LET h1 == unregisterEditorCommand(h, name \o ".multi-col")
      h2 == unregisterEditorCommand(h1, name \o ".series")
      h3 == unregisterEditorCommand(h2, name \o ".none")
  IN  removeCSSResources(h3, name)

(* The host calls of unload(), in program order.                           *)
unloadBody(h, name) ==
  LET h1 == unregisterEditorCommand(h, name \o ".multi-col")
      h2 == unregisterEditorCommand(h1, name \o ".series")
      h3 == unregisterEditorCommand(h2, name \o ".none")
      h4 == unregisterBlockMenuCommand(h3, name \o ".menu")
  IN  removeCSSResources(h4, name)

MaxLoads == 2

LoadsIn(log) == Len(SelectSeq(log, LAMBDA c : c.fn = "load"))
Unloaded(log) == \E i \in DOMAIN log : log[i].fn = "unload"

(* The log of the current run of loads: a load after an unload starts a    *)
(* new run, an unload after an unload replaces the record of the earlier.  *)
RunLog(log) ==
  IF Unloaded(log)
  THEN SubSeq(log, 1, (CHOOSE i \in DOMAIN log :
                         /\ log[i].fn = "unload"
                         /\ \A j \in 1..(i - 1) : log[j].fn # "unload") - 1)
  ELSE log

LogForLoad(log) == IF Unloaded(log) THEN <<>> ELSE log

load(name) ==
  /\ LoadsIn(LogForLoad(hostLog)) < MaxLoads
  /\ pluginName' = name
  /\ l10nLocale' = locale
  /\ l10nTranslations' = BuiltinTranslations
  /\ LET h == loadBody([Host EXCEPT !.log = Append(LogForLoad(@), [fn |-> "load", arg |-> name])],
                       name, BuiltinTranslations, locale)
     IN  /\ commands' = h.commands
         /\ blockMenuCommands' = h.blockMenuCommands
         /\ cssResources' = h.cssResources
         /\ hostLog' = h.log
  /\ UNCHANGED <<blocks, locale, exec, tCall, click>>

(* Variant: unload puts the localization state back to its initial values. *)
unload_ResetsL10N ==
  /\ LET h == unloadBody([Host EXCEPT !.log = Append(RunLog(@), [fn |-> "unload", arg |-> pluginName])],
                         pluginName)
     IN  /\ commands' = h.commands
         /\ blockMenuCommands' = h.blockMenuCommands
         /\ cssResources' = h.cssResources
         /\ hostLog' = h.log
  /\ l10nLocale' = "en"
  /\ l10nTranslations' = EmptyMap
  /\ UNCHANGED <<blocks, locale, pluginName, exec, tCall, click>>

(* Variant: unload removes the _attr property of every block.              *)
unload_ClearsLayouts ==
  /\ LET h == unloadBody([Host EXCEPT !.log = Append(RunLog(@), [fn |-> "unload", arg |-> pluginName])],
                         pluginName)
     IN  /\ commands' = h.commands
         /\ blockMenuCommands' = h.blockMenuCommands
         /\ cssResources' = h.cssResources
         /\ hostLog' = h.log
  /\ blocks' = [b \in DOMAIN blocks |->
                  [blocks[b] EXCEPT !.properties =
                     [n \in DOMAIN @ \ {"_attr"} |-> @[n]]]]
  /\ UNCHANGED <<locale, pluginName, l10nLocale, l10nTranslations, exec, tCall, click>>

unload ==
  /\ LET h == unloadBody([Host EXCEPT !.log = Append(RunLog(@), [fn |-> "unload", arg |-> pluginName])],
                         pluginName)
     IN  /\ commands' = h.commands
         /\ blockMenuCommands' = h.blockMenuCommands
         /\ cssResources' = h.cssResources
         /\ hostLog' = h.log
  /\ UNCHANGED <<blocks, locale, pluginName, l10nLocale, l10nTranslations, exec, tCall, click>>

----------------------------------------------------------------------------
(* main.tsx, the minimal variant of the entry point: load sets the plugin  *)
(* name and sets up localization, unload only writes to the console.       *)

(* Variant: the minimal load injects the layout CSS.                       *)
loadMinimal_InjectsCss(name) ==
  /\ LoadsIn(LogForLoad(hostLog)) < MaxLoads
  /\ pluginName' = name
  /\ l10nLocale' = locale
  /\ l10nTranslations' = BuiltinTranslations
  /\ cssResources' = Append(cssResources,
                            [url |-> name \o "/dist/layouts.css", role |-> name])
  /\ hostLog' = Append(Append(LogForLoad(hostLog), [fn |-> "load", arg |-> name]),
                       [fn |-> "injectCSSResource", arg |-> name])
  /\ UNCHANGED <<blocks, commands, blockMenuCommands, locale, exec, tCall, click>>

loadMinimal(name) ==
  /\ LoadsIn(LogForLoad(hostLog)) < MaxLoads
  /\ pluginName' = name
  /\ l10nLocale' = locale
  /\ l10nTranslations' = BuiltinTranslations
  /\ hostLog' = Append(LogForLoad(hostLog), [fn |-> "load", arg |-> name])
  /\ UNCHANGED <<blocks, commands, blockMenuCommands, cssResources, locale,
                 exec, tCall, click>>

unloadMinimal ==
  /\ hostLog' = Append(RunLog(hostLog), [fn |-> "unload", arg |-> pluginName])
  /\ UNCHANGED <<blocks, commands, blockMenuCommands, cssResources, locale,
                 pluginName, l10nLocale, l10nTranslations, exec, tCall, click>>

----------------------------------------------------------------------------
(* The block menu contribution's render(blockId, rootBlockId, close):      *)
(* null, or the "Table Layout" menu with its items in order; an item is    *)
(* its title and the command its click handler invokes.                    *)

MenuItem(key, command) ==
  [title |-> Template(l10nTranslations, l10nLocale, <<key>>), command |-> command]

(* Variant: the menu is rendered for every block the host holds.           *)
render_AnyBlock(blockId) ==
  IF blockId \notin DOMAIN blocks THEN <<>>
  ELSE << MenuItem("Multi-column", pluginName \o ".multi-col"),
          MenuItem("Series", pluginName \o ".series"),
          MenuItem("None", pluginName \o ".none") >>

render(blockId) ==
  IF blockId \notin DOMAIN blocks THEN <<>>
  ELSE LET props == blocks[blockId].properties
           repr == IF "_repr" \in DOMAIN props THEN props["_repr"].value ELSE JsNull
           type == IF repr # JsNull THEN repr.type ELSE "undefined"
       IN  IF type # "table2" THEN <<>>
           ELSE << MenuItem("Multi-column", pluginName \o ".multi-col"),
                   MenuItem("Series", pluginName \o ".series"),
                   MenuItem("None", pluginName \o ".none") >>

----------------------------------------------------------------------------
(* The onClick handlers of the three menu items render returns for a       *)
(* block: each awaits orca.commands.invokeEditorCommand(id, null, blockId) *)
(* and then calls the close callback render was given.                     *)

NoClick == [pc |-> "idle", item |-> 0, blockId |-> 0, invoked |-> <<>>,
            slot |-> 0, closes |-> 0]

(* The host runs the doFn registered under id with the block id as its     *)
(* argument.                                                               *)
RunCommand(id, blockId) ==
  IF commands[id].doFn = "setMultiCol" THEN setMultiColBody(blockId)
  ELSE IF commands[id].doFn = "setSeries" THEN setSeriesBody(blockId)
  ELSE clearLayoutBody(blockId)

(* Variant: close is called before the invocation is awaited.              *)
onClickBody_ClosesFirst(blockId, item) ==
  [pc |-> "awaiting", item |-> item, blockId |-> blockId,
   invoked |-> << [id |-> render(blockId)[item].command, cursor |-> JsNull,
                   arg |-> blockId] >>,
   slot |-> NewSlot, closes |-> 1]

(* The handler of item number item up to its await.                        *)
onClickBody(blockId, item) ==
  [pc |-> "awaiting", item |-> item, blockId |-> blockId,
   invoked |-> << [id |-> render(blockId)[item].command, cursor |-> JsNull,
                   arg |-> blockId] >>,
   slot |-> NewSlot, closes |-> 0]

(* The user clicks item number item of the menu rendered for blockId.      *)
onClick(blockId, item) ==
  /\ MenuId(pluginName) \in DOMAIN blockMenuCommands
  /\ blockMenuCommands[MenuId(pluginName)].render = "render"
  /\ render(blockId) # <<>>
  /\ item \in DOMAIN render(blockId)
  /\ click.pc # "awaiting"
  /\ FreeSlots # {}
  /\ render(blockId)[item].command \in DOMAIN commands
  /\ commands[render(blockId)[item].command].doFn
       \in {"setMultiCol", "setSeries", "clearLayout"}
  /\ click' = onClickBody(blockId, item)
  /\ exec' = Run(NewSlot, RunCommand(render(blockId)[item].command, blockId))
  /\ UNCHANGED <<blocks, commands, blockMenuCommands, cssResources, locale,
                 pluginName, l10nLocale, l10nTranslations, hostLog, tCall>>

(* Variant: close is called however the invocation settled.                *)
onClickResume_AlwaysCloses ==
  /\ click.pc = "awaiting"
  /\ exec[click.slot].pc \in {"done", "rejected"}
  /\ click' = [click EXCEPT !.pc = IF exec[click.slot].pc = "done"
                                   THEN "closed" ELSE "rejected",
                            !.closes = @ + 1]
  /\ UNCHANGED <<blocks, commands, blockMenuCommands, cssResources, locale,
                 pluginName, l10nLocale, l10nTranslations, exec, hostLog, tCall>>

(* The handler resumes after its await: close() when the invocation        *)
(* resolved; when it was rejected the handler ends rejected before close.  *)
onClickResume ==
  /\ click.pc = "awaiting"
  /\ exec[click.slot].pc \in {"done", "rejected"}
  /\ click' = IF exec[click.slot].pc = "done"
              THEN [click EXCEPT !.pc = "closed", !.closes = @ + 1]
              ELSE [click EXCEPT !.pc = "rejected"]
  /\ UNCHANGED <<blocks, commands, blockMenuCommands, cssResources, locale,
                 pluginName, l10nLocale, l10nTranslations, exec, hostLog, tCall>>

----------------------------------------------------------------------------
(* Specifications *)

Idle == [pc |-> "idle", op |-> "none", blockId |-> 0, pre |-> <<>>,
         calls |-> <<>>, settled |-> "none", result |-> "none", during |-> {}]

(* Host state as load("tl") leaves it on a host with nothing registered.   *)
Loaded == loadBody([commands |-> EmptyMap, blockMenuCommands |-> EmptyMap,
                    cssResources |-> <<>>,
                    log |-> << [fn |-> "load", arg |-> "tl"] >>],
                   "tl", BuiltinTranslations, "en")

(* The attribute operations, run one at a time on a loaded plugin.         *)
Init ==
  /\ blocks \in InitBlocks
  /\ commands = Loaded.commands
  /\ blockMenuCommands = Loaded.blockMenuCommands
  /\ cssResources = Loaded.cssResources
  /\ hostLog = Loaded.log
  /\ locale = "en"
  /\ pluginName = "tl"
  /\ l10nLocale = "en"
  /\ l10nTranslations = BuiltinTranslations
  /\ exec = [s \in Slots |-> Idle]
  /\ click = NoClick
  /\ tCall = NoCall

NoneSuspended == \A s \in Slots : ~Suspended(s)

Next ==
  \/ \E b \in BlockIds : NoneSuspended /\ setMultiCol(b)
  \/ \E b \in BlockIds : NoneSuspended /\ setSeries(b)
  \/ \E b \in BlockIds : NoneSuspended /\ clearLayout(b)
  \/ \E s \in Slots : HostApply(s)
  \/ \E s \in Slots : HostReject(s)
  \/ \E s \in Slots : Resume(s)

Spec == Init /\ [][Next]_vars

(* The attribute operations on blocks no layout has been chosen for yet:   *)
(* _attr is absent or holds customKey only.                                *)
InitFresh ==
  /\ Init
  /\ \A b \in DOMAIN blocks :
       "_attr" \in DOMAIN blocks[b].properties =>
         /\ blocks[b].properties["_attr"].value # JsNull
         /\ DOMAIN blocks[b].properties["_attr"].value = {"customKey"}

SpecFresh == InitFresh /\ [][Next]_vars

(* The menu: the items are clicked one at a time, each click running the   *)
(* command it invokes to its end.                                          *)
NextMenu ==
  \/ \E b \in BlockIds, i \in 1..3 : NoneSuspended /\ onClick(b, i)
  \/ \E s \in Slots : HostApply(s)
  \/ \E s \in Slots : HostReject(s)
  \/ \E s \in Slots : Resume(s)
  \/ onClickResume

SpecMenu == InitFresh /\ [][NextMenu]_vars

(* The attribute operations started while others are suspended at their   *)
(* await: the host settles the pending commands in any order.              *)
MaxInFlight == 2

InFlight == Cardinality({ s \in Slots : Suspended(s) })

InitConcurrent ==
  /\ InitFresh
  /\ DOMAIN blocks = {1}
  /\ render(1) # <<>>

NextConcurrent ==
  \/ \E b \in BlockIds : InFlight < MaxInFlight /\ setMultiCol(b)
  \/ \E b \in BlockIds : InFlight < MaxInFlight /\ setSeries(b)
  \/ \E b \in BlockIds : InFlight < MaxInFlight /\ clearLayout(b)
  \/ \E s \in Slots : HostApply(s)
  \/ \E s \in Slots : HostReject(s)
  \/ \E s \in Slots : Resume(s)

SpecConcurrent == InitConcurrent /\ [][NextConcurrent]_vars

(* The whole plugin on a host that holds one table block and nothing of    *)
(* the plugin yet: it is loaded and unloaded, and while its commands and   *)
(* its menu are registered they are used, one at a time.                   *)
InitPlugin ==
  /\ blocks \in InitBlocks
  /\ DOMAIN blocks = {1}
  /\ "_repr" \in DOMAIN blocks[1].properties
  /\ blocks[1].properties["_repr"].value = [type |-> "table2"]
  /\ "_attr" \in DOMAIN blocks[1].properties =>
       /\ blocks[1].properties["_attr"].value # JsNull
       /\ DOMAIN blocks[1].properties["_attr"].value = {"customKey"}
  /\ commands = EmptyMap
  /\ blockMenuCommands = EmptyMap
  /\ cssResources = <<>>
  /\ hostLog = <<>>
  /\ locale \in {"en", "zh-CN"}
  /\ pluginName = "undefined"
  /\ l10nLocale = "en"
  /\ l10nTranslations = EmptyMap
  /\ exec = [s \in Slots |-> Idle]
  /\ click = NoClick
  /\ tCall = [NoCall EXCEPT !.key = <<"Series">>]

NoneRunning == NoneSuspended /\ click.pc # "awaiting"

NextPlugin ==
  \/ \E n \in PluginNames : load(n)
  \/ unload
  \/ \E b \in BlockIds : NoneRunning /\ setMultiCol(b)
  \/ \E b \in BlockIds : NoneRunning /\ setSeries(b)
  \/ \E b \in BlockIds : NoneRunning /\ clearLayout(b)
  \/ \E b \in BlockIds, i \in 1..3 : NoneRunning /\ onClick(b, i)
  \/ \E s \in Slots : HostApply(s)
  \/ \E s \in Slots : HostReject(s)
  \/ \E s \in Slots : Resume(s)
  \/ onClickResume
  \/ callT

SpecPlugin == InitPlugin /\ [][NextPlugin]_vars

(* The lifecycle: load and unload on a host whose registries may already   *)
(* hold entries under the plugin's identifiers.                            *)
ForeignCommand == [doFn |-> "foreign", undoFn |-> "foreign", label |-> <<"foreign">>]
ForeignMenu == [worksOnMultipleBlocks |-> TRUE, render |-> "foreign"]
AllCommandIds == UNION { CommandIds(n) : n \in PluginNames }
AllMenuIds == { MenuId(n) : n \in PluginNames }

InitLife ==
  /\ blocks = EmptyMap
  /\ \E D \in SUBSET AllCommandIds : commands = [i \in D |-> ForeignCommand]
  /\ \E D \in SUBSET AllMenuIds : blockMenuCommands = [i \in D |-> ForeignMenu]
  /\ cssResources \in { <<>>, << [url |-> "theme.css", role |-> "theme"] >>,
                        << [url |-> "tl/dist/layouts.css", role |-> "tl"],
                           [url |-> "theme.css", role |-> "theme"] >> }
  /\ hostLog = <<>>
  /\ locale \in {"en", "zh-CN"}
  /\ pluginName = "undefined"
  /\ l10nLocale = "en"
  /\ l10nTranslations = EmptyMap
  /\ exec = [s \in Slots |-> Idle]
  /\ click = NoClick
  /\ tCall = NoCall

NextLife ==
  \/ \E n \in PluginNames : load(n)
  \/ unload

SpecLife == InitLife /\ [][NextLife]_vars

(* The lifecycle of the minimal variant, on the same hosts.                *)
NextMinimal ==
  \/ \E n \in PluginNames : loadMinimal(n)
  \/ unloadMinimal

SpecMinimal == InitLife /\ [][NextMinimal]_vars

(* The localization library: setupL10N and t called with sample strings.   *)
(* Keys and locale names are ordinary text: none of them names a property  *)
(* that a JavaScript object inherits from Object.prototype.                *)
MaxPieces == 2
MaxArgs == 2

ArgNames == { <<"x">>, <<"y">> }
Pieces == { <<"Hi ">> } \cup { Placeholder(n) : n \in ArgNames }

RECURSIVE StringsOf(_)
StringsOf(n) ==
  IF n = 0 THEN { <<>> }
  ELSE StringsOf(n - 1) \cup { s \o p : s \in StringsOf(n - 1), p \in Pieces }

SampleKeys == StringsOf(MaxPieces)
ArgValues == { <<"v">>, Placeholder(<<"y">>), <<"$", "&">>, <<"$", "$">> }
Locales == {"en", "zh-CN"}

(* The args objects: entries in insertion order, no name twice.            *)
RECURSIVE EntriesOf(_)
EntriesOf(n) ==
  IF n = 0 THEN { <<>> }
  ELSE EntriesOf(n - 1) \cup
       { Append(es, [name |-> a, val |-> v]) :
           es \in { x \in EntriesOf(n - 1) : Len(x) = n - 1 },
           a \in ArgNames, v \in ArgValues }

SampleArgs ==
  { <<>> } \cup
  { <<es>> : es \in { x \in EntriesOf(MaxArgs) :
                        \A i, j \in DOMAIN x : i # j => x[i].name # x[j].name } }

(* A translation of a sample key: marked text followed by the key's own    *)
(* placeholders.                                                           *)
Translated(k) == <<"zh">> \o k

SampleTables ==
  { [k \in D |-> Translated(k)] : D \in { {} } \cup { {k} : k \in StringsOf(1) } }

SampleTranslations ==
  { EmptyMap } \cup { [l \in {"zh-CN"} |-> tb] : tb \in SampleTables }

InitL10N ==
  /\ blocks = EmptyMap
  /\ commands = EmptyMap
  /\ blockMenuCommands = EmptyMap
  /\ cssResources = <<>>
  /\ hostLog = <<>>
  /\ locale = "en"
  /\ pluginName = "undefined"
  /\ l10nLocale = "en"
  /\ l10nTranslations = EmptyMap
  /\ exec = [s \in Slots |-> Idle]
  /\ click = NoClick
  /\ \E key \in SampleKeys, args \in SampleArgs,
        loc \in { <<>> } \cup { <<l>> : l \in Locales } :
          tCall = [NoCall EXCEPT !.key = key, !.args = args, !.locale = loc]

NextL10N ==
  \/ \E loc \in Locales, tr \in SampleTranslations : setupL10N(loc, tr)
  \/ callT

SpecL10N == InitL10N /\ [][NextL10N]_vars

----------------------------------------------------------------------------
(* Properties of the attribute operations (specification Spec)             *)

(* The _attr map of the target block as an execution found it: an absent   *)
(* block, an absent property and a null value count as the empty map.      *)
PreAttr(e) ==
  IF e.pre = <<>> THEN EmptyMap
  ELSE IF "_attr" \notin DOMAIN e.pre[1].properties THEN EmptyMap
  ELSE IF e.pre[1].properties["_attr"].value = JsNull THEN EmptyMap
  ELSE e.pre[1].properties["_attr"].value

Execs(op) == { s \in Slots : exec[s].pc # "idle" /\ exec[s].op = op }

(* The call asks the host to set _attr of block b to a map that holds      *)
(* key with 1 and every other key of m with its value in m.                *)
AsksSetWithKey(call, b, m, key) ==
  /\ call.cmd = "core.editor.setProperties"
  /\ call.blockIds = <<b>>
  /\ Len(call.arg) = 1
  /\ call.arg[1].name = "_attr"
  /\ DOMAIN call.arg[1].value = DOMAIN m \cup {key}
  /\ call.arg[1].value[key] = 1
  /\ \A k \in DOMAIN m \ {key} : call.arg[1].value[k] = m[k]

(* What a read of _attr of block b yields now.                             *)
ReadsKey(b, key) ==
  /\ b \in DOMAIN blocks
  /\ "_attr" \in DOMAIN blocks[b].properties
  /\ key \in DOMAIN blocks[b].properties["_attr"].value

(* C1: setMultiCol asks the host to set _attr to the map it found with     *)
(* multi-col mapped to 1 and every other key, a pre-existing serie         *)
(* included, kept with its value; once the host has applied the write the  *)
(* block's _attr holds multi-col: 1 and still holds serie if it did.       *)
C1_SetMultiColKeepsOtherKeys ==
  \A s \in Execs("setMultiCol") :
    LET e == exec[s] IN
      /\ Len(e.calls) >= 1
      /\ AsksSetWithKey(e.calls[1], e.blockId, PreAttr(e), "multi-col")
      /\ e.settled = "applied" =>
           /\ ReadsKey(e.blockId, "multi-col")
           /\ blocks[e.blockId].properties["_attr"].value["multi-col"] = 1
           /\ "serie" \in DOMAIN PreAttr(e) => ReadsKey(e.blockId, "serie")

C1_Witness ==
  \E s \in Execs("setMultiCol") :
    /\ exec[s].settled = "applied"
    /\ DOMAIN PreAttr(exec[s]) = {"serie", "customKey"}
    /\ ReadsKey(exec[s].blockId, "serie")
    /\ ReadsKey(exec[s].blockId, "multi-col")

(* C2: setSeries asks the host to set _attr to the map it found with       *)
(* serie mapped to 1 and every other key, a pre-existing multi-col         *)
(* included, kept with its value.                                          *)
C2_SetSeriesKeepsOtherKeys ==
  \A s \in Execs("setSeries") :
    /\ Len(exec[s].calls) >= 1
    /\ AsksSetWithKey(exec[s].calls[1], exec[s].blockId, PreAttr(exec[s]), "serie")

C2_Witness ==
  \E s \in Execs("setSeries") :
    /\ "multi-col" \in DOMAIN PreAttr(exec[s])
    /\ Len(exec[s].calls) = 1
    /\ "multi-col" \in DOMAIN exec[s].calls[1].arg[1].value
    /\ "serie" \in DOMAIN exec[s].calls[1].arg[1].value

IsDeleteAttr(call, b) ==
  /\ call.cmd = "core.editor.deleteProperties"
  /\ call.blockIds = <<b>>
  /\ call.arg = << "_attr" >>

(* C3: clearLayout on a block whose _attr map holds no key other than      *)
(* multi-col and serie asks the host to delete the _attr property,         *)
(* and no clearLayout asks the host to set _attr to the empty map.         *)
C3_ClearDeletesWhenOnlyLayoutKeys ==
  \A s \in Execs("clearLayout") :
    LET e == exec[s] IN
      /\ DOMAIN PreAttr(e) \subseteq LayoutKeys =>
           /\ Len(e.calls) >= 1
           /\ IsDeleteAttr(e.calls[1], e.blockId)
      /\ \A i \in DOMAIN e.calls :
           e.calls[i].cmd = "core.editor.setProperties" =>
             \A j \in DOMAIN e.calls[i].arg : DOMAIN e.calls[i].arg[j].value # {}

C3_Witness ==
  \E s \in Execs("clearLayout") :
    /\ DOMAIN PreAttr(exec[s]) = {"multi-col"}
    /\ exec[s].settled = "applied"
    /\ "_attr" \notin DOMAIN blocks[exec[s].blockId].properties

(* C4: clearLayout on a block whose _attr map holds a key other than       *)
(* multi-col and serie asks the host to set _attr to the map of            *)
(* exactly those other keys with their values, and not to delete _attr.    *)
C4_ClearKeepsOtherKeys ==
  \A s \in Execs("clearLayout") :
    LET e == exec[s]
        m == PreAttr(e)
    IN  DOMAIN m \ LayoutKeys # {} =>
          /\ Len(e.calls) >= 1
          /\ e.calls[1].cmd = "core.editor.setProperties"
          /\ e.calls[1].blockIds = <<e.blockId>>
          /\ Len(e.calls[1].arg) = 1
          /\ e.calls[1].arg[1].name = "_attr"
          /\ DOMAIN e.calls[1].arg[1].value = DOMAIN m \ LayoutKeys
          /\ \A k \in DOMAIN m \ LayoutKeys : e.calls[1].arg[1].value[k] = m[k]
          /\ \A i \in DOMAIN e.calls : e.calls[i].cmd # "core.editor.deleteProperties"

C4_Witness ==
  \E s \in Execs("clearLayout") :
    /\ DOMAIN PreAttr(exec[s]) = {"multi-col", "customKey"}
    /\ exec[s].settled = "applied"
    /\ DOMAIN blocks[exec[s].blockId].properties["_attr"].value = {"customKey"}

(* C5: every execution of setMultiCol, setSeries or clearLayout issues     *)
(* exactly one host command invocation, a core.editor.setProperties or a   *)
(* core.editor.deleteProperties, whatever the state of the block.          *)
C5_ExactlyOneHostCommand ==
  \A s \in Slots :
    exec[s].pc # "idle" =>
      /\ Len(exec[s].calls) = 1
      /\ exec[s].calls[1].cmd \in {"core.editor.setProperties",
                                   "core.editor.deleteProperties"}

C5_Witness ==
  \E s \in Execs("clearLayout") :
    /\ exec[s].pc = "done"
    /\ exec[s].pre # <<>>
    /\ "_attr" \notin DOMAIN exec[s].pre[1].properties
    /\ Len(exec[s].calls) = 1

(* C6: render returns null for a block that is missing, has no _repr or    *)
(* has a _repr.type other than "table2"; for a "table2" block it returns   *)
(* the three items Multi-column, Series, None whatever its _attr is.       *)
IsTable2(b) ==
  /\ b \in DOMAIN blocks
  /\ "_repr" \in DOMAIN blocks[b].properties
  /\ blocks[b].properties["_repr"].value # JsNull
  /\ blocks[b].properties["_repr"].value.type = "table2"

C6_RenderOnlyForTable2 ==
  \A b \in BlockIds :
    IF IsTable2(b)
    THEN /\ Len(render(b)) = 3
         /\ render(b)[1].command = pluginName \o ".multi-col"
         /\ render(b)[2].command = pluginName \o ".series"
         /\ render(b)[3].command = pluginName \o ".none"
    ELSE render(b) = <<>>

C6_Witness ==
  /\ IsTable2(1) /\ ReadsKey(1, "serie") /\ Len(render(1)) = 3
  /\ 2 \in DOMAIN blocks /\ ~IsTable2(2) /\ render(2) = <<>>
  /\ \E s \in Execs("setSeries") : exec[s].blockId = 1 /\ exec[s].pc = "done"

----------------------------------------------------------------------------
(* Properties of the lifecycle (specification SpecLife)                    *)

RegisterCalls(log, id) ==
  Len(SelectSeq(log, LAMBDA c :
        c.fn \in {"registerEditorCommand", "registerBlockMenuCommand"} /\ c.arg = id))

PluginIds(name) == CommandIds(name) \cup {MenuId(name)}

(* The host calls a step of load adds to the log.                          *)
CallsOfStep ==
  IF LoadsIn(hostLog') > LoadsIn(LogForLoad(hostLog))
  THEN SubSeq(hostLog', Len(LogForLoad(hostLog)) + 1, Len(hostLog'))
  ELSE <<>>

(* C7: load registers an identifier only if the host registry does not     *)
(* hold it at that moment: over a run of loads without unload every        *)
(* identifier is registered at most once and an entry that is present is   *)
(* never registered again or replaced.                                     *)
C7_NoDoubleRegistration ==
  [][ \A id \in PluginIds(pluginName') :
        /\ ~Unloaded(hostLog') => RegisterCalls(hostLog', id) <= 1
        /\ RegisterCalls(CallsOfStep, id) > 0 =>
             id \notin DOMAIN commands \cup DOMAIN blockMenuCommands
        /\ id \in DOMAIN commands \cap DOMAIN commands' =>
             commands'[id] = commands[id]
        /\ id \in DOMAIN blockMenuCommands \cap DOMAIN blockMenuCommands' =>
             blockMenuCommands'[id] = blockMenuCommands[id] ]_vars

C7_Witness ==
  /\ LoadsIn(hostLog) = 2
  /\ ~Unloaded(hostLog)
  /\ RegisterCalls(hostLog, "tl.series") = 1
  /\ RegisterCalls(hostLog, "tl.menu") = 1
  /\ "tl.none" \in DOMAIN commands /\ commands["tl.none"].doFn = "foreign"

(* C8: after unload following one or more loads the host registry holds    *)
(* none of the three command identifiers nor the menu identifier, and no   *)
(* CSS resource with the plugin's role, whichever registrations load made. *)
C8_UnloadUnregistersAll ==
  (Unloaded(hostLog) /\ LoadsIn(hostLog) >= 1) =>
    /\ CommandIds(pluginName) \cap DOMAIN commands = {}
    /\ MenuId(pluginName) \notin DOMAIN blockMenuCommands
    /\ \A i \in DOMAIN cssResources : cssResources[i].role # pluginName

C8_Witness ==
  /\ Unloaded(hostLog)
  /\ LoadsIn(hostLog) = 2
  /\ RegisterCalls(hostLog, "tl.multi-col") = 0
  /\ RegisterCalls(hostLog, "tl.menu") = 0
  /\ RegisterCalls(hostLog, "tl.none") = 1
  /\ PluginIds("tl") \cap (DOMAIN commands \cup DOMAIN blockMenuCommands) = {}

(* C9: from the completion of load until the next unload the host registry *)
(* holds the three command identifiers and the menu identifier, and at     *)
(* least one CSS resource with the plugin's role is injected.              *)
C9_LoadedStateHoldsRegistrations ==
  (LoadsIn(hostLog) >= 1 /\ ~Unloaded(hostLog)) =>
    /\ CommandIds(pluginName) \subseteq DOMAIN commands
    /\ MenuId(pluginName) \in DOMAIN blockMenuCommands
    /\ \E i \in DOMAIN cssResources : cssResources[i].role = pluginName

C9_Witness ==
  /\ LoadsIn(hostLog) = 1
  /\ ~Unloaded(hostLog)
  /\ RegisterCalls(hostLog, "tl.multi-col") = 0
  /\ RegisterCalls(hostLog, "tl.series") = 1
  /\ CommandIds("tl") \subseteq DOMAIN commands
  /\ Len(cssResources) = 1

----------------------------------------------------------------------------
(* Properties of the localization lookup (specification SpecL10N)          *)

Symbols == {"$", "{", "}", "&", Grave, Apostrophe, "Hi ", "x", "y", "v", "zh"}

(* The locale a call consults and whether it holds an entry for the key.   *)
CallLocale == IF tCall.locale = <<>> THEN l10nLocale ELSE tCall.locale[1]

CallHasEntry ==
  /\ CallLocale \in DOMAIN l10nTranslations
  /\ tCall.key \in DOMAIN l10nTranslations[CallLocale]

(* str with the arguments of the call substituted.                         *)
Substituted(str) ==
  IF tCall.args = <<>> THEN str ELSE ReduceArgs(tCall.args[1], str)

ResolvedTemplate ==
  IF CallHasEntry THEN l10nTranslations[CallLocale][tCall.key] ELSE tCall.key

(* Every occurrence of search in str, from position i on, replaced by val  *)
(* as it stands.                                                           *)
RECURSIVE VerbatimFrom(_, _, _, _)
VerbatimFrom(str, search, val, i) ==
  IF i > Len(str) THEN <<>>
  ELSE IF i + Len(search) - 1 <= Len(str) /\ SubSeq(str, i, i + Len(search) - 1) = search
       THEN val \o VerbatimFrom(str, search, val, i + Len(search))
       ELSE <<str[i]>> \o VerbatimFrom(str, search, val, i + 1)

RECURSIVE VerbatimAll(_, _)
VerbatimAll(entries, str) ==
  IF entries = <<>> THEN str
  ELSE VerbatimAll(Tail(entries),
                   VerbatimFrom(str, <<"$", "{">> \o Head(entries).name \o <<"}">>,
                                Head(entries).val, 1))

(* C11: with an args map every occurrence of the placeholder of an         *)
(* argument in the resolved template is replaced by exactly the value of   *)
(* the argument, inserted verbatim whatever characters it holds.           *)
C11_ValuesInsertedVerbatim ==
  (tCall.called /\ tCall.args # <<>>) =>
    tCall.result = VerbatimAll(tCall.args[1], ResolvedTemplate)

(* The arguments substituted in one pass over str: the placeholders are    *)
(* looked for in str only, never in the text inserted for them.            *)
MatchingEntries(str, entries, i) ==
  { k \in DOMAIN entries :
      LET ph == <<"$", "{">> \o entries[k].name \o <<"}">>
      IN  /\ i + Len(ph) - 1 <= Len(str)
          /\ SubSeq(str, i, i + Len(ph) - 1) = ph }

RECURSIVE OnePassFrom(_, _, _)
OnePassFrom(str, entries, i) ==
  IF i > Len(str) THEN <<>>
  ELSE IF MatchingEntries(str, entries, i) = {}
       THEN <<str[i]>> \o OnePassFrom(str, entries, i + 1)
       ELSE LET k == CHOOSE k \in MatchingEntries(str, entries, i) :
                       \A m \in MatchingEntries(str, entries, i) : k <= m
                ph == <<"$", "{">> \o entries[k].name \o <<"}">>
            IN  GetSubstitution(str, ph, i, entries[k].val, 1)
                \o OnePassFrom(str, entries, i + Len(ph))

OnePass(str, entries) == OnePassFrom(str, entries, 1)

(* C12 as stated: for every template and args map the text inserted for   *)
(* an argument is never itself subject to placeholder substitution.        *)
C12_InsertedTextNeverSubstituted ==
  (tCall.called /\ tCall.args # <<>>) =>
    tCall.result = OnePass(ResolvedTemplate, tCall.args[1])

(* One pass per argument, in the order of the entries, each on the string  *)
(* the passes before it produced.                                          *)
RECURSIVE PassPerEntry(_, _)
PassPerEntry(entries, str) ==
  IF entries = <<>> THEN str
  ELSE PassPerEntry(Tail(entries), OnePass(str, << Head(entries) >>))

(* C12 amended: the pass that replaces the placeholder of one argument     *)
(* does not look into the text it inserts, so with a single argument the   *)
(* inserted text is never substituted and "Hi ${x}" with {x: "${y}"}       *)
(* yields "Hi ${y}"; the pass of a later argument of the map does act on   *)
(* the text inserted for the earlier ones.                                 *)
C12_NoRescanWithinOneArgument ==
  (tCall.called /\ tCall.args # <<>>) =>
    /\ Len(tCall.args[1]) <= 1 =>
         tCall.result = OnePass(ResolvedTemplate, tCall.args[1])
    /\ tCall.result = PassPerEntry(tCall.args[1], ResolvedTemplate)
    /\ ( /\ ResolvedTemplate = <<"Hi ", "$", "{", "x", "}">>
         /\ tCall.args[1] = << [name |-> <<"x">>, val |-> <<"$", "{", "y", "}">>] >> )
       => tCall.result = <<"Hi ", "$", "{", "y", "}">>

C12_Witness ==
  /\ tCall.called
  /\ tCall.key = <<"$", "{", "x", "}">>
  /\ ~CallHasEntry
  /\ tCall.args = << << [name |-> <<"x">>, val |-> <<"$", "{", "y", "}">>],
                        [name |-> <<"y">>, val |-> <<"v">>] >> >>
  /\ tCall.result = <<"v">>

(* The entry of locale loc for the key of the call, else the key.          *)
LookupIn(loc) ==
  IF loc \in DOMAIN l10nTranslations /\ tCall.key \in DOMAIN l10nTranslations[loc]
  THEN l10nTranslations[loc][tCall.key]
  ELSE tCall.key

(* C13: with an explicit locale argument only the table of that locale is  *)
(* consulted, whatever the configured locale holds; without it the locale  *)
(* set by setupL10N is used; with the initial locale "en" and the initial  *)
(* empty table every lookup falls back to the key.                         *)
C13_LocaleResolution ==
  tCall.called =>
    /\ tCall.locale # <<>> => tCall.result = Substituted(LookupIn(tCall.locale[1]))
    /\ tCall.locale = <<>> => tCall.result = Substituted(LookupIn(l10nLocale))
    /\ (tCall.locale = <<>> /\ l10nLocale = "en" /\ l10nTranslations = EmptyMap)
         => tCall.result = Substituted(tCall.key)

C13_Witness ==
  /\ tCall.called
  /\ tCall.locale = << "en" >>
  /\ l10nLocale = "zh-CN"
  /\ LookupIn("zh-CN") # tCall.key
  /\ tCall.args = <<>>
  /\ tCall.result = tCall.key
----------------------------------------------------------------------------
(* Further properties of the attribute operations (specifications Spec and *)
(* SpecFresh)                                                              *)

(* C14: when the host rejects the command of an operation, the operation   *)
(* ends rejected and does not return null, it has invoked the host once    *)
(* and issues no second or compensating command, and the target block is   *)
(* as it was when the operation started.                                   *)
C14_RejectionPropagates ==
  \A s \in Slots :
    /\ exec[s].settled = "rejected" =>
         /\ exec[s].pc \in {"awaiting", "rejected"}
         /\ exec[s].result = "none"
         /\ Len(exec[s].calls) = 1
         /\ Snapshot(exec[s].blockId) = exec[s].pre
    /\ exec[s].pc = "rejected" => exec[s].settled = "rejected"
    /\ exec[s].pc = "done" => exec[s].settled = "applied"

C14_Witness ==
  \E s \in Execs("clearLayout") :
    /\ exec[s].pc = "rejected"
    /\ DOMAIN PreAttr(exec[s]) = {"multi-col", "serie"}
    /\ ReadsKey(exec[s].blockId, "multi-col")
    /\ ReadsKey(exec[s].blockId, "serie")

(* The execution found no usable _attr: the block is not in host state,    *)
(* or it has no _attr property, or the value of its _attr is null.         *)
FoundNoAttr(e) ==
  \/ e.pre = <<>>
  \/ "_attr" \notin DOMAIN e.pre[1].properties
  \/ e.pre[1].properties["_attr"].value = JsNull

(* C15: for a block that is not in host state, or has no _attr, or has a   *)
(* null _attr, the map read is empty and nothing fails: setMultiCol asks   *)
(* for _attr = {multi-col: 1}, setSeries for {serie: 1}, clearLayout for   *)
(* the deletion of _attr, each for that block id.                          *)
C15_EmptyMapDefault ==
  \A s \in Slots :
    (exec[s].pc # "idle" /\ FoundNoAttr(exec[s])) =>
      exec[s].calls =
        << IF exec[s].op = "clearLayout"
           THEN [cmd |-> "core.editor.deleteProperties",
                 blockIds |-> << exec[s].blockId >>, arg |-> << "_attr" >>]
           ELSE [cmd |-> "core.editor.setProperties",
                 blockIds |-> << exec[s].blockId >>,
                 arg |-> << [name |-> "_attr", type |-> 0,
                             value |-> IF exec[s].op = "setMultiCol"
                                       THEN [k \in {"multi-col"} |-> 1]
                                       ELSE [k \in {"serie"} |-> 1]] >>] >>

C15_Witness ==
  \E s \in Execs("setSeries") :
    /\ exec[s].blockId \notin DOMAIN blocks
    /\ exec[s].pre = <<>>
    /\ exec[s].settled = "pending"
    /\ exec[s].calls[1].arg[1].value = [k \in {"serie"} |-> 1]

(* C17: starting from blocks with neither layout key, after every sequence *)
(* of the three operations each block is in one of three layout states:    *)
(* multi-col = 1 only, serie = 1 only, or neither.                         *)
C17_AtMostOneLayoutKey ==
  \A b \in DOMAIN blocks :
    ~(ReadsKey(b, "multi-col") /\ ReadsKey(b, "serie"))

(* C18: starting from blocks whose _attr is absent or non-empty, the       *)
(* operations never ask the host to store an empty map, so every _attr in  *)
(* host state is absent or a non-empty map; a set operation applied to a   *)
(* block without _attr creates the property.                               *)
C18_NoEmptyAttrPersisted ==
  /\ \A b \in DOMAIN blocks :
       "_attr" \in DOMAIN blocks[b].properties =>
         /\ blocks[b].properties["_attr"].value # JsNull
         /\ DOMAIN blocks[b].properties["_attr"].value # {}
  /\ \A s \in Slots : \A i \in DOMAIN exec[s].calls :
       exec[s].calls[i].cmd = "core.editor.setProperties" =>
         \A j \in DOMAIN exec[s].calls[i].arg :
           DOMAIN exec[s].calls[i].arg[j].value # {}
  /\ \A s \in Execs("setMultiCol") \cup Execs("setSeries") :
       exec[s].settled = "applied" =>
         "_attr" \in DOMAIN blocks[exec[s].blockId].properties

C18_Witness ==
  \E s \in Execs("clearLayout") :
    /\ exec[s].settled = "applied"
    /\ DOMAIN PreAttr(exec[s]) = {"multi-col"}
    /\ "_attr" \notin DOMAIN blocks[exec[s].blockId].properties

(* C19: the operations never write block state themselves: they work on a  *)
(* copy of _attr, and host state changes only in the step in which the     *)
(* host applies a pending command, by what that command asks.              *)
C19_BlocksChangeOnlyByHost ==
  [][ blocks' # blocks =>
        \E s \in Slots :
          /\ exec[s].settled = "pending"
          /\ exec'[s].settled = "applied"
          /\ blocks' = ApplyCommand(blocks, Last(exec[s].calls)) ]_vars

C19_Witness ==
  \E s \in Execs("clearLayout") :
    /\ exec[s].settled = "pending"
    /\ exec[s].calls[1].cmd = "core.editor.deleteProperties"
    /\ ReadsKey(exec[s].blockId, "multi-col")
    /\ ReadsKey(exec[s].blockId, "serie")

(* The properties of block b other than _attr, in host state bs.           *)
OtherProps(bs, b) ==
  [n \in DOMAIN bs[b].properties \ {"_attr"} |-> bs[b].properties[n]]

(* C20: every host command targets the one block id of its operation and   *)
(* the one property _attr, written with type 0; no step changes another    *)
(* block or another property, _repr in particular, so whether the menu is  *)
(* rendered for a block never changes.                                     *)
C20_OnlyTargetAttrChanges ==
  [][ /\ DOMAIN blocks' = DOMAIN blocks
      /\ \A b \in DOMAIN blocks :
           /\ OtherProps(blocks', b) = OtherProps(blocks, b)
           /\ blocks'[b] # blocks[b] =>
                \E s \in Slots : /\ exec[s].blockId = b
                                 /\ exec[s].settled = "pending"
                                 /\ exec'[s].settled = "applied"
           /\ "_attr" \in DOMAIN blocks'[b].properties =>
                \/ blocks'[b].properties["_attr"].type = 0
                \/ blocks'[b] = blocks[b]
      /\ \A b \in BlockIds : render(b)' = render(b)
      /\ \A s \in Slots : \A i \in DOMAIN exec'[s].calls :
           LET call == exec'[s].calls[i]
           IN  /\ call.blockIds = << exec'[s].blockId >>
               /\ Len(call.arg) = 1
               /\ IF call.cmd = "core.editor.setProperties"
                  THEN call.arg[1].name = "_attr" /\ call.arg[1].type = 0
                  ELSE call.arg[1] = "_attr" ]_vars

C20_Witness ==
  \E s \in Execs("setMultiCol") :
    /\ exec[s].settled = "applied"
    /\ IsTable2(exec[s].blockId)
    /\ render(exec[s].blockId) # <<>>
    /\ ReadsKey(exec[s].blockId, "multi-col")
    /\ \E b \in DOMAIN blocks \ {exec[s].blockId} : ReadsKey(b, "serie")
----------------------------------------------------------------------------
(* Properties of the menu items (specification SpecMenu)                   *)

ItemSuffix(item) ==
  IF item = 1 THEN ".multi-col" ELSE IF item = 2 THEN ".series" ELSE ".none"

ItemOp(item) ==
  IF item = 1 THEN "setMultiCol" ELSE IF item = 2 THEN "setSeries" ELSE "clearLayout"

(* C16: the handler of each menu item, clicked for block b, invokes the    *)
(* one command of the item (<name>.multi-col, <name>.series, <name>.none)  *)
(* with b as its argument, and calls close at most once, only after that   *)
(* invocation has completed; once the handler has run to its end after a   *)
(* completed invocation, close has been called exactly once.               *)
C16_ItemInvokesThenCloses ==
  click.pc # "idle" =>
    /\ click.invoked = << [id |-> pluginName \o ItemSuffix(click.item),
                           cursor |-> JsNull, arg |-> click.blockId] >>
    /\ exec[click.slot].op = ItemOp(click.item)
    /\ exec[click.slot].blockId = click.blockId
    /\ click.closes <= 1
    /\ click.closes = 1 => exec[click.slot].pc = "done"
    /\ click.pc = "closed" <=> click.closes = 1
    /\ exec[click.slot].pc = "done" => click.pc \in {"awaiting", "closed"}

C16_Witness ==
  /\ click.pc = "closed"
  /\ click.item = 2
  /\ click.closes = 1
  /\ exec[click.slot].op = "setSeries"
  /\ exec[click.slot].pc = "done"
  /\ ReadsKey(click.blockId, "serie")
----------------------------------------------------------------------------
(* Further properties of the localization lookup (specification SpecL10N)  *)

(* The string after the first n entries of the args map have been          *)
(* substituted, one replace-all per entry.                                 *)
RECURSIVE FoldUpTo(_, _, _)
FoldUpTo(entries, n, template) ==
  IF n = 0 THEN template
  ELSE OnePass(FoldUpTo(entries, n - 1, template), << entries[n] >>)

Reversed(entries) == [i \in DOMAIN entries |-> entries[Len(entries) + 1 - i]]

(* C22: the arguments are substituted one at a time in the entry order of  *)
(* the args map, each replace-all acting on the string the one before it   *)
(* produced: the result is the left-to-right fold over the entries that    *)
(* starts from the resolved template.                                      *)
C22_LeftToRightFold ==
  (tCall.called /\ tCall.args # <<>>) =>
    tCall.result = FoldUpTo(tCall.args[1], Len(tCall.args[1]), ResolvedTemplate)

C22_Witness ==
  /\ tCall.called
  /\ tCall.args # <<>>
  /\ Len(tCall.args[1]) = 2
  /\ ResolvedTemplate = <<"Hi ", "$", "{", "x", "}">>
  /\ tCall.result = <<"Hi ", "v">>
  /\ FoldUpTo(Reversed(tCall.args[1]), 2, ResolvedTemplate) # tCall.result

----------------------------------------------------------------------------
(* Further properties of the menu items (specification SpecMenu)           *)

(* C25: when the command invocation of a menu item is rejected its handler *)
(* never calls close: close is called only in the step in which the        *)
(* handler resumes after an invocation that completed.                     *)
C25_NoCloseAfterRejection ==
  [][ /\ click'.pc = "rejected" => click'.closes = 0
      /\ (click.pc = "awaiting" /\ exec[click.slot].pc = "rejected")
          => click'.closes = 0
      /\ (click'.closes > click.closes)
          => /\ click.pc = "awaiting"
             /\ exec[click.slot].pc = "done"
             /\ exec[click.slot].settled = "applied" ]_vars

C25_Witness ==
  /\ click.pc = "rejected"
  /\ click.closes = 0
  /\ exec[click.slot].pc = "rejected"
  /\ exec[click.slot].settled = "rejected"

----------------------------------------------------------------------------
(* Further properties of the lifecycle (specification SpecLife)            *)

CallsIn(log, fn, arg) ==
  Len(SelectSeq(log, LAMBDA c : c.fn = fn /\ c.arg = arg))

(* The calls unload made: the log from its unload record on.               *)
UnloadPart(log) ==
  IF Unloaded(log)
  THEN SubSeq(log, Len(RunLog(log)) + 1, Len(log))
  ELSE <<>>

(* C26: load injects the CSS resource without an existence check: n loads  *)
(* of a name without an unload between them make n injectCSSResource calls *)
(* with the name as role, while each command and the menu is registered at *)
(* most once; unload makes one removeCSSResources(name) call.              *)
C26_CssInjectedOnEveryLoad ==
  /\ \A n \in PluginNames :
       /\ CallsIn(RunLog(hostLog), "injectCSSResource", n)
            = CallsIn(RunLog(hostLog), "load", n)
       /\ \A id \in CommandIds(n) :
            CallsIn(RunLog(hostLog), "registerEditorCommand", id) <= 1
       /\ CallsIn(RunLog(hostLog), "registerBlockMenuCommand", MenuId(n)) <= 1
  /\ Unloaded(hostLog) =>
       /\ CallsIn(UnloadPart(hostLog), "removeCSSResources", pluginName) = 1
       /\ \A i \in DOMAIN cssResources : cssResources[i].role # pluginName

C26_Witness ==
  /\ ~Unloaded(hostLog)
  /\ CallsIn(hostLog, "load", "tl") = 2
  /\ CallsIn(hostLog, "injectCSSResource", "tl") = 2
  /\ CallsIn(hostLog, "registerEditorCommand", "tl.series") = 1
  /\ Len(SelectSeq(cssResources, LAMBDA r : r.role = "tl")) >= 2
----------------------------------------------------------------------------
(* Sequences of two attribute operations on one block (specifications      *)
(* SpecFresh and Spec).  The operations run one at a time: in the step in  *)
(* which the second starts, the first is done and host state is as the     *)
(* first left it.                                                          *)

(* In this step operation second starts in slot s on the block on which an *)
(* operation of firsts has just been applied.                              *)
StartsAfter(s, firsts, second) ==
  /\ exec[s].pc = "done"
  /\ exec[s].settled = "applied"
  /\ exec[s].op \in firsts
  /\ exec'[s].pc = "awaiting"
  /\ exec'[s].op = second
  /\ exec'[s].blockId = exec[s].blockId

(* Host state once the host has applied what the operation starting in    *)
(* slot s asks for.                                                        *)
OnceApplied(s) == ApplyCommand(blocks, Last(exec'[s].calls))

OtherKey(op) == IF op = "setMultiCol" THEN "serie" ELSE "multi-col"

(* C27: for a block whose _attr is absent, or a non-empty map with neither *)
(* layout key, setMultiCol or setSeries followed by clearLayout restores   *)
(* the block exactly; when the block held the other layout key before the  *)
(* set, the clear removes that key too and the block is not restored.      *)
C27_SetThenClearRoundTrip ==
  [][ \A s \in Slots :
        StartsAfter(s, {"setMultiCol", "setSeries"}, "clearLayout") =>
          LET b == exec[s].blockId
              before == exec[s].pre[1]
              after == OnceApplied(s)[b]
          IN  /\ ( \/ "_attr" \notin DOMAIN before.properties
                   \/ /\ before.properties["_attr"].value # JsNull
                      /\ DOMAIN before.properties["_attr"].value # {}
                      /\ DOMAIN before.properties["_attr"].value \cap LayoutKeys = {} )
                 => after = before
              /\ OtherKey(exec[s].op) \in DOMAIN PreAttr(exec[s])
                 => /\ after # before
                    /\ \/ "_attr" \notin DOMAIN after.properties
                       \/ OtherKey(exec[s].op)
                            \notin DOMAIN after.properties["_attr"].value ]_vars

C27_Witness ==
  \E s \in Execs("clearLayout") :
    /\ exec[s].settled = "applied"
    /\ PreAttr(exec[s]) = [k \in {"serie", "customKey"} |-> IF k = "serie" THEN 1 ELSE MaxVal]
    /\ blocks[exec[s].blockId].properties["_attr"]
         = [value |-> [k \in {"customKey"} |-> MaxVal], type |-> 0]

(* C28: each operation is idempotent on block state: applied a second time *)
(* right after the first, it issues its one host command again and that    *)
(* command leaves every block as the first application left it.            *)
C28_Idempotent ==
  [][ \A s \in Slots : \A op \in {"setMultiCol", "setSeries", "clearLayout"} :
        StartsAfter(s, {op}, op) =>
          /\ Len(exec'[s].calls) = 1
          /\ OnceApplied(s) = blocks ]_vars

C28_Witness ==
  \E s \in Execs("setMultiCol") :
    /\ exec[s].settled = "applied"
    /\ "multi-col" \in DOMAIN PreAttr(exec[s])
    /\ Len(exec[s].calls) = 1
    /\ Snapshot(exec[s].blockId) = exec[s].pre
----------------------------------------------------------------------------
(* Properties of the minimal entry point (specification SpecMinimal)       *)

(* C23: the minimal variant registers nothing: its load only sets the      *)
(* plugin name and sets up localization, its unload makes no host call,    *)
(* and no sequence of its loads and unloads changes the command registry,  *)
(* the block menu registry or the injected CSS resources.                  *)
C23_MinimalRegistersNothing ==
  [][ /\ commands' = commands
      /\ blockMenuCommands' = blockMenuCommands
      /\ cssResources' = cssResources
      /\ \A i \in DOMAIN hostLog' : hostLog'[i].fn \in {"load", "unload"}
      /\ Last(hostLog').fn = "load" =>
           /\ pluginName' = Last(hostLog').arg
           /\ l10nLocale' = locale
           /\ l10nTranslations' = BuiltinTranslations
      /\ Last(hostLog').fn = "unload" =>
           /\ pluginName' = pluginName
           /\ l10nLocale' = l10nLocale
           /\ l10nTranslations' = l10nTranslations ]_vars

C23_Witness ==
  /\ Unloaded(hostLog)
  /\ LoadsIn(hostLog) = 2
  /\ pluginName = "tl"
  /\ l10nLocale = "zh-CN"
  /\ l10nTranslations = BuiltinTranslations
  /\ DOMAIN commands = {"tl.series"}
  /\ commands["tl.series"] = ForeignCommand
  /\ blockMenuCommands = EmptyMap
  /\ \E i \in DOMAIN cssResources : cssResources[i].role = "tl"
----------------------------------------------------------------------------
(* Properties of operations in flight together (specification              *)
(* SpecConcurrent)                                                         *)

LayoutKey(op) == IF op = "setMultiCol" THEN "multi-col" ELSE "serie"

(* In this step the host applies the write of s, the write of u has been   *)
(* applied before, s and u are setMultiCol and setSeries on one block, and *)
(* each of the two started before the write of the other was applied.      *)
AppliedLastOfTwo(s, u) ==
  /\ s # u
  /\ exec[s].settled = "pending"
  /\ exec'[s].settled = "applied"
  /\ exec[u].settled = "applied"
  /\ exec[s].blockId = exec[u].blockId
  /\ {exec[s].op, exec[u].op} = {"setMultiCol", "setSeries"}
  /\ (u \in exec[s].during \/ s \in exec[u].during)

(* Every write of a set operation carries the map the operation saw at its *)
(* start with its own key added.                                           *)
WritesCarryMapSeenAtStart ==
  \A s \in Execs("setMultiCol") \cup Execs("setSeries") :
    /\ Len(exec[s].calls) = 1
    /\ exec[s].calls[1].arg[1].value
         = [k \in DOMAIN PreAttr(exec[s]) \cup {LayoutKey(exec[s].op)} |->
              IF k = LayoutKey(exec[s].op) THEN 1 ELSE PreAttr(exec[s])[k]]

(* C24 as stated: when setMultiCol and setSeries are both started on one   *)
(* block before either write is applied, then after both writes the _attr  *)
(* of the block holds the layout key of the write applied last and not the *)
(* key of the other.                                                       *)
C24_OtherKeyAlwaysLost ==
  [][ \A s, u \in Slots :
        AppliedLastOfTwo(s, u) =>
          LET attr == blocks'[exec[s].blockId].properties["_attr"].value
          IN  /\ LayoutKey(exec[s].op) \in DOMAIN attr
              /\ LayoutKey(exec[u].op) \notin DOMAIN attr ]_vars

(* C24 amended: each write carries the map seen at the start of its        *)
(* operation with its own key added and replaces the whole _attr; after    *)
(* both writes the _attr is the map of the write applied last, which holds *)
(* the key of the other only when the block held that key already when     *)
(* the operation applied last started.                                     *)
C24_LastWriteWins ==
  [][ /\ WritesCarryMapSeenAtStart'
      /\ \A s, u \in Slots :
           AppliedLastOfTwo(s, u) =>
             LET attr == blocks'[exec[s].blockId].properties["_attr"].value
             IN  /\ attr = exec[s].calls[1].arg[1].value
                 /\ LayoutKey(exec[s].op) \in DOMAIN attr
                 /\ LayoutKey(exec[u].op) \in DOMAIN attr
                      <=> LayoutKey(exec[u].op) \in DOMAIN PreAttr(exec[s]) ]_vars

C24_Witness ==
  \E s \in Execs("setMultiCol"), u \in Execs("setSeries") :
    /\ exec[s].settled = "applied"
    /\ exec[u].settled = "applied"
    /\ exec[s].blockId = exec[u].blockId
    /\ s \in exec[u].during
    /\ DOMAIN PreAttr(exec[s]) \cap LayoutKeys = {}
    /\ PreAttr(exec[u]) = PreAttr(exec[s])
    /\ ReadsKey(exec[s].blockId, "multi-col")
    /\ ~ReadsKey(exec[s].blockId, "serie")
----------------------------------------------------------------------------
(* Properties of the plugin as a whole (specification SpecPlugin)          *)

(* In this step load runs: its last host call is the CSS injection.        *)
IsLoadStep ==
  /\ hostLog' # hostLog
  /\ Last(hostLog').fn = "injectCSSResource"

(* In this step load or unload runs.                                       *)
IsLifecycleStep == hostLog' # hostLog

(* C21 as stated: the only mutable state the plugin holds is the active    *)
(* locale and the translation table, written only during load; load        *)
(* writes no other plugin-held state and nothing else writes any.          *)
C21_OnlyL10NStateIsWritten ==
  [][ /\ pluginName' = pluginName
      /\ (l10nLocale' # l10nLocale \/ l10nTranslations' # l10nTranslations)
           => IsLoadStep ]_vars

(* C21 amended: the mutable state the plugin holds is the plugin name, the *)
(* active locale and the translation table; the three are written only by  *)
(* load, to the name load is given, the locale of the host and the         *)
(* built-in translations, and t, render, the menu handlers, the three      *)
(* attribute operations and unload leave them as they are.                 *)
C21_PluginStateWrittenOnlyByLoad ==
  [][ /\ ( \/ pluginName' # pluginName
           \/ l10nLocale' # l10nLocale
           \/ l10nTranslations' # l10nTranslations ) => IsLoadStep
      /\ IsLoadStep =>
           /\ pluginName' \in PluginNames
           /\ hostLog'[1] = [fn |-> "load", arg |-> pluginName']
           /\ l10nLocale' = locale
           /\ l10nTranslations' = BuiltinTranslations ]_vars

C21_Witness ==
  /\ Unloaded(hostLog)
  /\ pluginName = "tl"
  /\ l10nLocale = "zh-CN"
  /\ l10nTranslations = BuiltinTranslations
  /\ tCall.called
  /\ tCall.result # tCall.key
  /\ click.pc = "closed"
  /\ \E s \in Execs("clearLayout") : exec[s].pc = "done"

(* C29: load and unload issue no core.editor.setProperties and no          *)
(* core.editor.deleteProperties and leave block state alone: no load or    *)
(* unload step changes a block or an operation's host command, so layout   *)
(* keys set while the plugin was loaded stay on the blocks after unload.   *)
C29_LifecycleLeavesBlocksAlone ==
  [][ IsLifecycleStep =>
        /\ blocks' = blocks
        /\ exec' = exec
        /\ \A i \in DOMAIN hostLog' :
             hostLog'[i].fn \notin {"core.editor.setProperties",
                                    "core.editor.deleteProperties"} ]_vars

C29_Witness ==
  /\ Unloaded(hostLog)
  /\ Last(hostLog).fn = "removeCSSResources"
  /\ commands = EmptyMap
  /\ blockMenuCommands = EmptyMap
  /\ ReadsKey(1, "multi-col")
  /\ ReadsKey(1, "serie")
  /\ \A s \in Slots : exec[s].pc # "awaiting"
====
